---- MODULE Spec2Model ----
(***************************************************************************)
(* Model of the JSONPath template resolver bundled in dist/index.js and of *)
(* the job handler `invoke` (src/script.mjs and its bundle dist/index.js). *)
(*                                                                         *)
(* A JavaScript string is a sequence of one-character strings.  A JSON     *)
(* value is a tagged record [t, v]; a mapping holds its entries as a       *)
(* sequence of <<key, value>> pairs in Object.entries order.               *)
(***************************************************************************)
EXTENDS Integers, Sequences, FiniteSets, TLC

VARIABLES
  pc,          \* position of the running call
  input,       \* resolveJSONPathTemplates: argument `input`
  jobContext,  \* resolveJSONPathTemplates: argument `jobContext`
  options,     \* [omit, inject]: omitNoValueForExactTemplates, injectSGNLNamespace
  clock,       \* the Date that `new Date()` returned inside injectSGNLNamespace
  result,      \* returned .result
  errors,      \* returned .errors
  handler,     \* invoke: which build of the handler runs ("src" | "dist" | "none")
  secrets,     \* invoke: context.secrets
  url,         \* invoke: the `url` local
  message,     \* invoke: the payload's message
  posted,      \* invoke: the request handed to fetch, or NoRequest
  outcome      \* invoke: "running" | "returned" | the message of the Error thrown

vars == <<pc, input, jobContext, options, clock, result, errors,
          handler, secrets, url, message, posted, outcome>>

(***************************************************************************)
(* JSON values                                                             *)
(***************************************************************************)
Null == [t |-> "null"]
Undefined == [t |-> "undefined"]
Bool(b) == [t |-> "boolean", v |-> b]
Num(n) == [t |-> "number", v |-> n]
Str(s) == [t |-> "string", v |-> s]
Arr(xs) == [t |-> "array", v |-> xs]
Obj(es) == [t |-> "object", v |-> es]

\* typeof value === 'object'
IsObjectType(v) == v.t \in {"null", "array", "object"}

\* !!value
Truthy(v) ==
  CASE v.t \in {"null", "undefined"} -> FALSE
    [] v.t = "boolean" -> v.v
    [] v.t = "number" -> v.v # 0
    [] v.t = "string" -> v.v # <<>>
    [] OTHER -> TRUE

Digits == <<"0", "1", "2", "3", "4", "5", "6", "7", "8", "9">>

IsDigit(c) == \E i \in 1..10 : Digits[i] = c

DigitVal(c) == (CHOOSE i \in 1..10 : Digits[i] = c) - 1

\* /^\d+$/.test(segment)
AllDigits(seg) == seg # <<>> /\ \A i \in 1..Len(seg) : IsDigit(seg[i])

\* parseInt(segment, 10) of an all-digit segment
RECURSIVE ParseInt(_)
ParseInt(seg) ==
  IF seg = <<>> THEN 0
  ELSE 10 * ParseInt(SubSeq(seg, 1, Len(seg) - 1)) + DigitVal(seg[Len(seg)])

\* String(n) of a non-negative integer
RECURSIVE NumToString(_)
NumToString(n) ==
  IF n < 10 THEN <<Digits[n + 1]>>
  ELSE NumToString(n \div 10) \o <<Digits[(n % 10) + 1]>>

HasKey(es, k) == \E i \in 1..Len(es) : es[i][1] = k

Lookup(es, k) == es[CHOOSE i \in 1..Len(es) : es[i][1] = k][2]

\* a canonical array index ("0", "1", "12", not "01"): such keys come first,
\* ascending, in a JavaScript object's own-key order
IsIndexKey(k) == AllDigits(k) /\ (Len(k) = 1 \/ k[1] # "0")

\* CreateDataProperty on an ordinary object: replace in place, or insert at the
\* key's place in own-key order
DefineKey(es, k, v) ==
  IF HasKey(es, k)
  THEN [i \in 1..Len(es) |-> IF es[i][1] = k THEN <<k, v>> ELSE es[i]]
  ELSE IF IsIndexKey(k)
       THEN LET before == SelectSeq(es, LAMBDA e : IsIndexKey(e[1]) /\ ParseInt(e[1]) < ParseInt(k))
                after == SelectSeq(es, LAMBDA e : ~(IsIndexKey(e[1]) /\ ParseInt(e[1]) < ParseInt(k)))
            IN before \o <<(<<k, v>>)>> \o after
       ELSE Append(es, <<k, v>>)

RECURSIVE DefineAll(_, _)
DefineAll(es, more) ==
  IF more = <<>> THEN es
  ELSE DefineAll(DefineKey(es, more[1][1], more[1][2]), Tail(more))

\* the own enumerable entries an object spread {...v} copies
SpreadEntries(v) ==
  CASE v.t = "object" -> v.v
    [] v.t = "array" -> [i \in 1..Len(v.v) |-> <<NumToString(i - 1), v.v[i]>>]
    [] v.t = "string" -> [i \in 1..Len(v.v) |-> <<NumToString(i - 1), Str(<<v.v[i]>>)>>]
    [] OTHER -> <<>>

PROTO == <<"_", "_", "p", "r", "o", "t", "o", "_", "_">>
K_sgnl == <<"s", "g", "n", "l">>
K_time == <<"t", "i", "m", "e">>
K_now == <<"n", "o", "w">>
K_length == <<"l", "e", "n", "g", "t", "h">>

\* v?.[k] for the keys the injector reads (own data properties of JSON values)
OptGet(v, k) ==
  IF v.t = "object" /\ HasKey(v.v, k) THEN Lookup(v.v, k) ELSE Undefined

(***************************************************************************)
(* JSON.stringify                                                          *)
(***************************************************************************)
RECURSIVE Join(_, _)
Join(parts, sep) ==
  IF parts = <<>> THEN <<>>
  ELSE IF Len(parts) = 1 THEN parts[1]
  ELSE parts[1] \o sep \o Join(Tail(parts), sep)

\* a quoted JSON string: the quote and the backslash are escaped
RECURSIVE Escape(_)
Escape(s) ==
  IF s = <<>> THEN <<>>
  ELSE (IF s[1] \in {"\"", "\\"} THEN <<"\\", s[1]>> ELSE <<s[1]>>) \o Escape(Tail(s))

Quote(s) == <<"\"">> \o Escape(s) \o <<"\"">>

RECURSIVE JSONStringify(_)
JSONStringify(v) ==
  CASE v.t = "null" -> <<"n", "u", "l", "l">>
    [] v.t = "boolean" -> IF v.v THEN <<"t", "r", "u", "e">> ELSE <<"f", "a", "l", "s", "e">>
    [] v.t = "number" -> NumToString(v.v)
    [] v.t = "string" -> Quote(v.v)
    [] v.t = "array" ->
         <<"[">> \o Join([i \in 1..Len(v.v) |-> JSONStringify(v.v[i])], <<",">>) \o <<"]">>
    [] v.t = "object" ->
         <<"{">> \o Join([i \in 1..Len(v.v) |->
                            Quote(v.v[i][1]) \o <<":">> \o JSONStringify(v.v[i][2])], <<",">>)
                 \o <<"}">>

\* valueToString without the branch for strings: a string comes out quoted
valueToStringQuoted(value) ==
  IF value.t \in {"null", "undefined"} THEN <<>> ELSE JSONStringify(value)

\* valueToString (dist/index.js:161)
valueToString(value) ==
  IF value.t \in {"null", "undefined"} THEN <<>>
  ELSE IF value.t = "string" THEN value.v
  ELSE JSONStringify(value)

(***************************************************************************)
(* Template patterns (dist/index.js:14-24)                                 *)
(***************************************************************************)
\* index of the first "}" of s at or after i, 0 when there is none
RECURSIVE FirstClose(_, _)
FirstClose(s, i) ==
  IF i > Len(s) THEN 0
  ELSE IF s[i] = "}" THEN i
  ELSE FirstClose(s, i + 1)

\* the pattern with * for +: /\{(\$[^}]*)\}/g
TEMPLATE_PATTERN_Star(s, i) ==
  IF i + 2 <= Len(s) /\ s[i] = "{" /\ s[i + 1] = "$"
  THEN FirstClose(s, i + 2)
  ELSE 0

\* TEMPLATE_PATTERN = /\{(\$[^}]+)\}/g tried at index i of s: the index of the
\* closing brace of the match, 0 when the pattern does not match there
TEMPLATE_PATTERN(s, i) ==
  IF i + 3 <= Len(s) /\ s[i] = "{" /\ s[i + 1] = "$" /\ s[i + 2] # "}"
  THEN FirstClose(s, i + 3)
  ELSE 0

\* EXACT_TEMPLATE_PATTERN = /^\{(\$[^}]+)\}$/ .test(s)
EXACT_TEMPLATE_PATTERN(s) ==
  IF 4 <= Len(s) /\ s[1] = "{" /\ s[2] = "$" /\ s[3] # "}"
  THEN FirstClose(s, 4) = Len(s)
  ELSE FALSE

NO_VALUE_PLACEHOLDER == <<"{", "N", "o", " ", "V", "a", "l", "u", "e", "}">>

(***************************************************************************)
(* extractJSONPathValue (dist/index.js:67-153)                             *)
(***************************************************************************)
IsQuote(c) == c \in {"'", "\""}

\* current.replace(/^['"]|['"]$/g, '')
StripQuotes(current) ==
  LET c1 == IF current # <<>> /\ IsQuote(current[1]) THEN Tail(current) ELSE current
  IN IF c1 # <<>> /\ IsQuote(c1[Len(c1)]) THEN SubSeq(c1, 1, Len(c1) - 1) ELSE c1

\* the loop of lines 88-113 from index i on, and the trailing push of 115-117
RECURSIVE ParseFrom(_, _, _, _, _)
ParseFrom(path, i, segments, current, inBracket) ==
  IF i > Len(path)
  THEN IF current # <<>> THEN Append(segments, current) ELSE segments
  ELSE LET char == path[i] IN
    IF char = "[" /\ ~inBracket
    THEN ParseFrom(path, i + 1,
                   IF current # <<>> THEN Append(segments, current) ELSE segments,
                   <<>>, TRUE)
    ELSE IF char = "]" /\ inBracket
    THEN ParseFrom(path, i + 1,
                   IF current # <<>> THEN Append(segments, StripQuotes(current)) ELSE segments,
                   <<>>, FALSE)
    ELSE IF char = "." /\ ~inBracket
    THEN ParseFrom(path, i + 1,
                   IF current # <<>> THEN Append(segments, current) ELSE segments,
                   <<>>, inBracket)
    ELSE ParseFrom(path, i + 1, segments, Append(current, char), inBracket)

ParseSegments(path) == ParseFrom(path, 1, <<>>, <<>>, FALSE)

\* lines 70-75: remove the leading $ and optional dot
StripRoot(jsonPath) ==
  IF Len(jsonPath) >= 2 /\ jsonPath[1] = "$" /\ jsonPath[2] = "."
  THEN SubSeq(jsonPath, 3, Len(jsonPath))
  ELSE IF Len(jsonPath) >= 1 /\ jsonPath[1] = "$"
  THEN Tail(jsonPath)
  ELSE jsonPath

NotFound == [value |-> Null, found |-> FALSE]

\* Object.prototype.hasOwnProperty.call(value, segment) for an object or an array
\* reached with a segment that is not all digits: an array's own non-index key
\* is "length"
HasOwnProperty(value, segment) ==
  IF value.t = "object" THEN HasKey(value.v, segment)
  ELSE value.t = "array" /\ segment = K_length

\* value[segment] for an own property
GetOwn(value, segment) ==
  IF value.t = "object" THEN Lookup(value.v, segment) ELSE Num(Len(value.v))

\* the final value returned without the null check
FinalKeepsNull(value) == [value |-> value, found |-> TRUE]

\* lines 144-149: treat null as not found
Final(value) ==
  IF value.t = "null" THEN NotFound ELSE [value |-> value, found |-> TRUE]

\* lines 119-149: traverse the object
RECURSIVE Traverse(_, _)
Traverse(value, segments) ==
  IF segments = <<>>
  THEN Final(value)
  ELSE LET segment == segments[1] IN
    IF value.t \in {"null", "undefined"} THEN NotFound
    ELSE IF ~IsObjectType(value) THEN NotFound
    ELSE IF value.t = "array" /\ AllDigits(segment)
    THEN LET index == ParseInt(segment) IN
         IF index < 0 \/ index >= Len(value.v) THEN NotFound
         ELSE Traverse(value.v[index + 1], Tail(segments))
    ELSE IF HasOwnProperty(value, segment)
    THEN Traverse(GetOwn(value, segment), Tail(segments))
    ELSE NotFound

extractJSONPathValue(json, jsonPath) ==
  LET path == StripRoot(jsonPath) IN
  IF path = <<>> THEN [value |-> json, found |-> TRUE]
  ELSE Traverse(json, ParseSegments(path))

(***************************************************************************)
(* resolveTemplateString (dist/index.js:182-214)                           *)
(***************************************************************************)
\* an error message: `failed to extract field '${field}': ${why}`
ErrNotFound(jsonPath) == [field |-> jsonPath, why |-> "field not found"]
ErrEmpty(jsonPath) == [field |-> jsonPath, why |-> "field is empty"]

\* the replacer pushing no error for an empty value
ReplacerSilentEmpty(jsonPath, ctx, isExactTemplate, omitNoValueForExactTemplates) ==
  LET ex == extractJSONPathValue(ctx, jsonPath) IN
  IF ~ex.found
  THEN [text |-> IF isExactTemplate /\ omitNoValueForExactTemplates
                 THEN <<>> ELSE NO_VALUE_PLACEHOLDER,
        errors |-> <<ErrNotFound(jsonPath)>>]
  ELSE [text |-> valueToString(ex.value), errors |-> <<>>]

\* the replacer ignoring the option
ReplacerNoOmit(jsonPath, ctx, isExactTemplate, omitNoValueForExactTemplates) ==
  LET ex == extractJSONPathValue(ctx, jsonPath) IN
  IF ~ex.found
  THEN [text |-> NO_VALUE_PLACEHOLDER, errors |-> <<ErrNotFound(jsonPath)>>]
  ELSE LET strValue == valueToString(ex.value) IN
       IF strValue = <<>>
       THEN [text |-> <<>>, errors |-> <<ErrEmpty(jsonPath)>>]
       ELSE [text |-> strValue, errors |-> <<>>]

\* the replacer applying the option to embedded expressions too
ReplacerOmitAnywhere(jsonPath, ctx, isExactTemplate, omitNoValueForExactTemplates) ==
  LET ex == extractJSONPathValue(ctx, jsonPath) IN
  IF ~ex.found
  THEN [text |-> IF omitNoValueForExactTemplates THEN <<>> ELSE NO_VALUE_PLACEHOLDER,
        errors |-> <<ErrNotFound(jsonPath)>>]
  ELSE LET strValue == valueToString(ex.value) IN
       IF strValue = <<>>
       THEN [text |-> <<>>, errors |-> <<ErrEmpty(jsonPath)>>]
       ELSE [text |-> strValue, errors |-> <<>>]

\* the replacer callback of lines 189-211: the substitution text and the errors
\* it pushes
Replacer(jsonPath, ctx, isExactTemplate, omitNoValueForExactTemplates) ==
  LET ex == extractJSONPathValue(ctx, jsonPath) IN
  IF ~ex.found
  THEN [text |-> IF isExactTemplate /\ omitNoValueForExactTemplates
                 THEN <<>> ELSE NO_VALUE_PLACEHOLDER,
        errors |-> <<ErrNotFound(jsonPath)>>]
  ELSE LET strValue == valueToString(ex.value) IN
       IF strValue = <<>>
       THEN [text |-> <<>>, errors |-> <<ErrEmpty(jsonPath)>>]
       ELSE [text |-> strValue, errors |-> <<>>]

\* templateString.replace(TEMPLATE_PATTERN, replacer) from index i on
RECURSIVE ReplaceFrom(_, _, _, _, _)
ReplaceFrom(s, i, ctx, isExact, omit) ==
  IF i > Len(s) THEN [result |-> <<>>, errors |-> <<>>]
  ELSE LET close == TEMPLATE_PATTERN(s, i) IN
    IF close = 0
    THEN LET rest == ReplaceFrom(s, i + 1, ctx, isExact, omit)
         IN [result |-> <<s[i]>> \o rest.result, errors |-> rest.errors]
    ELSE LET sub == Replacer(SubSeq(s, i + 1, close - 1), ctx, isExact, omit)
             rest == ReplaceFrom(s, close + 1, ctx, isExact, omit)
         IN [result |-> sub.text \o rest.result, errors |-> sub.errors \o rest.errors]

resolveTemplateString(templateString, ctx, omitNoValueForExactTemplates) ==
  ReplaceFrom(templateString, 1, ctx, EXACT_TEMPLATE_PATTERN(templateString),
              omitNoValueForExactTemplates)

(***************************************************************************)
(* injectSGNLNamespace (dist/index.js:31-56)                               *)
(***************************************************************************)
\* Date.prototype.toISOString of a date [sec, ms] of the minute 2025-12-04T17:30
TwoDigits(n) == IF n < 10 THEN <<"0">> \o NumToString(n) ELSE NumToString(n)

ThreeDigits(n) == IF n < 100 THEN <<"0">> \o TwoDigits(n) ELSE NumToString(n)

toISOString(date) ==
  <<"2", "0", "2", "5", "-", "1", "2", "-", "0", "4", "T", "1", "7", ":", "3", "0", ":">>
    \o TwoDigits(date.sec) \o <<".">> \o ThreeDigits(date.ms) \o <<"Z">>

\* date.toISOString().replace(/\.\d{3}Z$/, 'Z')
formatRFC3339(date) ==
  LET iso == toISOString(date)
      n == Len(iso)
  IN IF n >= 5 /\ iso[n] = "Z" /\ iso[n - 4] = "."
        /\ IsDigit(iso[n - 3]) /\ IsDigit(iso[n - 2]) /\ IsDigit(iso[n - 1])
     THEN SubSeq(iso, 1, n - 5) \o <<"Z">>
     ELSE iso

injectSGNLNamespace(ctx, now) ==
  LET sgnl == OptGet(ctx, K_sgnl)
      time == IF sgnl.t \in {"null", "undefined"} THEN Undefined ELSE OptGet(sgnl, K_time)
      newTime == Obj(DefineAll(<<(<<K_now, Str(formatRFC3339(now))>>)>>, SpreadEntries(time)))
      newSgnl == Obj(DefineKey(SpreadEntries(sgnl), K_time, newTime))
  IN Obj(DefineKey(SpreadEntries(ctx), K_sgnl, newSgnl))

(***************************************************************************)
(* resolveJSONPathTemplates (dist/index.js:245-296)                        *)
(***************************************************************************)
\* resolved[key] = resolvedVal on the plain object under construction: the key
\* __proto__ reaches the inherited setter and creates no own property
AssignKey(es, key, val) ==
  IF key = PROTO THEN es ELSE DefineKey(es, key, val)

RECURSIVE resolveValue(_, _, _)
RECURSIVE ResolveItems(_, _, _)
RECURSIVE ResolveEntries(_, _, _, _)

\* value.map(item => resolveValue(item)): the resolved items and the errors pushed
ResolveItems(items, ctx, omit) ==
  IF items = <<>> THEN [result |-> <<>>, errors |-> <<>>]
  ELSE LET head == resolveValue(items[1], ctx, omit)
           rest == ResolveItems(Tail(items), ctx, omit)
       IN [result |-> <<head.result>> \o rest.result, errors |-> head.errors \o rest.errors]

\* the for-of loop of lines 276-285 over the remaining entries
ResolveEntries(entries, resolved, ctx, omit) ==
  IF entries = <<>> THEN [result |-> resolved, errors |-> <<>>]
  ELSE LET head == resolveValue(entries[1][2], ctx, omit)
           next == IF omit /\ head.result = Str(<<>>)
                   THEN resolved
                   ELSE AssignKey(resolved, entries[1][1], head.result)
           rest == ResolveEntries(Tail(entries), next, ctx, omit)
       IN [result |-> rest.result, errors |-> head.errors \o rest.errors]

resolveValue(value, ctx, omit) ==
  IF value.t = "string"
  THEN LET r == resolveTemplateString(value.v, ctx, omit)
       IN [result |-> Str(r.result), errors |-> r.errors]
  ELSE IF value.t = "array"
  THEN LET r == ResolveItems(value.v, ctx, omit)
       IN [result |-> Arr(IF omit THEN SelectSeq(r.result, LAMBDA item : item # Str(<<>>))
                          ELSE r.result),
           errors |-> r.errors]
  ELSE IF value.t = "object"
  THEN LET r == ResolveEntries(value.v, <<>>, ctx, omit)
       IN [result |-> Obj(r.result), errors |-> r.errors]
  ELSE [result |-> value, errors |-> <<>>]

\* jobContext || {}
OrEmpty(ctx) == IF Truthy(ctx) THEN ctx ELSE Obj(<<>>)

\* line 252: the context the templates are resolved against
resolvedJobContext(ctx, inject, now) ==
  IF inject THEN injectSGNLNamespace(OrEmpty(ctx), now) ELSE OrEmpty(ctx)

resolveJSONPathTemplates(in, ctx, omit, inject, now) ==
  resolveValue(in, resolvedJobContext(ctx, inject, now), omit)

(***************************************************************************)
(* The calls explored: bounded families of arguments                       *)
(***************************************************************************)
MaxSegs == 2   \* path pieces after the "$" of a generated template
MaxItems == 2  \* elements of a generated sequence, entries of a generated mapping
MaxSec == 1    \* seconds the clock may show

NoDate == [sec |-> 0 - 1, ms |-> 0]
Dates == [sec : 0..MaxSec, ms : {0, 123}]

NoRequest == [url |-> Undefined, message |-> Undefined, token |-> Undefined]

\* a context with a value of every kind
CtxRich ==
  Obj(<< <<<<"a">>, Str(<<"x">>)>>, <<<<"e">>, Str(<<>>)>>, <<<<"n">>, Null>>, <<<<"z">>, Num(0)>>,
         <<<<"f">>, Bool(FALSE)>>, <<<<"s">>, Arr(<<Str(<<"x">>), Obj(<< <<<<"a">>, Num(12)>> >>)>>)>>,
         <<<<"o">>, Obj(<<>>)>>, <<<<"l">>, Arr(<<>>)>>, <<PROTO, Str(<<"p">>)>> >>)

CtxArray == Arr(<<Str(<<"x">>), Null>>)

CtxString == Str(<<"a", "b">>)

\* the pieces a generated path is made of
PathPieces ==
  { <<".", "a">>, <<".", "e">>, <<".", "n">>, <<".", "z">>, <<".", "f">>, <<".", "s">>, <<".", "o">>, <<".", "l">>, <<".", "m">>, <<"[", "0", "]">>, <<"[", "1", "]">>, <<"[", "2", "]">>, <<"[", "'", "a", "'", "]">>,
    <<".", "l", "e", "n", "g", "t", "h">>, <<".">>, <<"[">> }

RECURSIVE PathsUpTo(_)
PathsUpTo(n) ==
  IF n = 0 THEN {<<>>}
  ELSE PathsUpTo(n - 1) \cup {p \o piece : p \in PathsUpTo(n - 1), piece \in PathPieces}

Template(path) == <<"{", "$">> \o path \o <<"}">>

\* family A: one template, exact or inside literal text
StringsA ==
  {affix[1] \o Template(path) \o affix[2] :
     affix \in {<<(<<>>), (<<>>)>>, <<<<"x">>, <<"!">>>>}, path \in PathsUpTo(MaxSegs)}

ContextsA == {CtxRich, CtxArray, CtxString}

\* family B: sequences and mappings over a pool of elements
ElemPool ==
  { Str(<<>>), Str(<<"x">>), Str(<<"{", "$", ".", "a", "}">>), Str(<<"{", "$", ".", "m", "}">>), Str(<<"{", "$", ".", "e", "}">>),
    Str(<<"x", "{", "$", ".", "m", "}">>), Str(<<"{", "$", ".", "m", "}", "{", "$", ".", "e", "}", "{", "$", ".", "z", "}">>), Num(7), Arr(<<Str(<<"{", "$", ".", "n", "}">>)>>) }

RECURSIVE SeqsUpTo(_, _)
SeqsUpTo(S, n) ==
  IF n = 0 THEN {<<>>}
  ELSE SeqsUpTo(S, n - 1) \cup {Append(q, x) : q \in SeqsUpTo(S, n - 1), x \in S}

KeyOrder == <<<<"a">>, <<"b">>, PROTO>>

\* the mappings whose keys are KeyOrder[i] for the i of I, in that order
RECURSIVE EntriesOver(_, _)
EntriesOver(I, S) ==
  IF I = {} THEN {<<>>}
  ELSE LET last == CHOOSE i \in I : \A j \in I : j <= i
       IN {Append(es, <<KeyOrder[last], x>>) : es \in EntriesOver(I \ {last}, S), x \in S}

InputsB ==
  {Arr(q) : q \in SeqsUpTo(ElemPool, MaxItems)}
    \cup UNION {{Obj(es) : es \in EntriesOver(I, ElemPool)} :
                  I \in {J \in SUBSET (1..Len(KeyOrder)) : Cardinality(J) <= MaxItems}}

ContextsB == {CtxRich, Undefined, Null}

\* family C: the injected namespace
NOW == <<"{", "$", ".", "s", "g", "n", "l", ".", "t", "i", "m", "e", ".", "n", "o", "w", "}">>

StringsC ==
  { NOW, <<"a", "t", " ">> \o NOW, NOW \o <<"/">> \o NOW, <<"{", "$", ".", "s", "g", "n", "l", ".", "k", "}">>, <<"{", "$", ".", "s", "g", "n", "l", ".", "t", "i", "m", "e", ".", "k", "}">>,
    <<"{", "$", ".", "s", "g", "n", "l", ".", "t", "i", "m", "e", "}">>, <<"{", "$", ".", "a", "}">>, <<"{", "$", ".", "s", "g", "n", "l", "[", "0", "]", "}">>, <<"{", "$", ".", "s", "g", "n", "l", ".", "t", "i", "m", "e", "[", "0", "]", "}">>, <<"{", "$", "[", "0", "]", "}">> }

InputsC ==
  {Str(t) : t \in StringsC}
    \cup {Arr(<<Str(NOW), Str(t)>>) : t \in StringsC}
    \cup {Obj(<< <<<<"a">>, Str(t)>>, <<<<"b">>, Str(<<"a", "t", " ">> \o NOW)>> >>) : t \in StringsC}

SgnlOf(v) == Obj(<< <<<<"a">>, Str(<<"x">>)>>, <<K_sgnl, v>> >>)

TimeOf(v) == SgnlOf(Obj(<< <<<<"k">>, Str(<<"v">>)>>, <<K_time, v>> >>))

ContextsC ==
  { Undefined, Obj(<<>>), Num(5), CtxArray, CtxString,
    SgnlOf(Null), SgnlOf(Str(<<"a", "b">>)), SgnlOf(Arr(<<Num(1)>>)),
    SgnlOf(Obj(<< <<<<"k">>, Str(<<"v">>)>> >>)),
    TimeOf(Null), TimeOf(Str(<<"a", "b">>)), TimeOf(Arr(<<Num(1)>>)),
    TimeOf(Obj(<< <<<<"k">>, Str(<<"w">>)>> >>)),
    TimeOf(Obj(<< <<K_now, Str(<<"T">>)>>, <<<<"k">>, Str(<<"w">>)>> >>)),
    TimeOf(Obj(<< <<K_now, Str(<<>>)>> >>)),
    TimeOf(Obj(<< <<K_now, Num(5)>> >>)),
    TimeOf(Obj(<< <<K_now, Null>> >>)) }

\* family D: the job handler's params, context.data and context.secrets
K_url == <<"u", "r", "l">>
K_message == <<"m", "e", "s", "s", "a", "g", "e">>
K_bearer_token == <<"b", "e", "a", "r", "e", "r", "_", "t", "o", "k", "e", "n">>
HELLO == <<"H", "e", "l", "l", "o", " ", "W", "o", "r", "l", "d", "!">>

UrlPool ==
  { Str(<<"h", "t", "t", "p", ":", "/", "/", "h">>), Str(<<"{", "$", ".", "u", "}">>), Str(<<"h", "t", "t", "p", ":", "/", "/", "{", "$", ".", "h", "}", "/">>), Str(<<"{", "$", ".", "m", "}">>), Str(<<"{", "$", ".", "e", "}">>),
    Str(<<>>) }

MessagePool == { Undefined, Str(<<"h", "i">>), Str(<<"h", "i", " ", "{", "$", ".", "w", "h", "o", "}">>), Str(<<"{", "$", ".", "m", "}">>), Str(<<>>) }

ParamsD ==
  {Obj(<< <<K_url, u>> >>) : u \in UrlPool}
    \cup {Obj(<< <<K_url, u>>, <<K_message, m>> >>) : u \in UrlPool, m \in MessagePool \ {Undefined}}
    \cup {Obj(<< <<K_message, m>> >>) : m \in MessagePool \ {Undefined}}

DataD ==
  { Undefined,
    Obj(<< <<<<"u">>, Str(<<"h", "t", "t", "p", ":", "/", "/", "u">>)>>, <<<<"h">>, Str(<<"h">>)>>, <<<<"w", "h", "o">>, Str(<<"A", "n", "a">>)>>,
           <<<<"e">>, Str(<<>>)>> >>) }

SecretsD == { Undefined, Obj(<<>>), Obj(<< <<K_bearer_token, Str(<<"t", "o", "k">>)>> >>) }

(***************************************************************************)
(* State machine                                                           *)
(***************************************************************************)
Idle ==
  /\ result = Undefined
  /\ errors = <<>>
  /\ clock = NoDate
  /\ url = Undefined
  /\ message = Undefined
  /\ posted = NoRequest
  /\ outcome = "running"

\* a direct call resolveJSONPathTemplates(input, jobContext, options)
InitCall ==
  /\ pc = "called"
  /\ handler = "none"
  /\ secrets = Undefined
  /\ \/ /\ input \in {Str(t) : t \in StringsA}
        /\ jobContext \in ContextsA
        /\ options \in [omit : BOOLEAN, inject : {FALSE}]
     \/ /\ input \in InputsB
        /\ jobContext \in ContextsB
        /\ options \in [omit : BOOLEAN, inject : {FALSE}]
     \/ /\ input \in InputsC
        /\ jobContext \in ContextsC
        /\ options \in [omit : BOOLEAN, inject : BOOLEAN]

\* the platform calls invoke(params, context); input holds params and jobContext
\* holds context.data
InitInvoke ==
  /\ pc = "invoke"
  /\ handler \in {"src", "dist"}
  /\ input \in ParamsD
  /\ jobContext \in DataD
  /\ secrets \in SecretsD
  /\ options = [omit |-> FALSE, inject |-> handler = "src"]

Init == Idle /\ (InitCall \/ InitInvoke)

\* resolveJSONPathTemplates (dist/index.js:245-296); new Date() is read only
\* when the namespace is injected
Resolve ==
  /\ pc = "called"
  /\ \E now \in Dates :
       /\ clock' = IF options.inject THEN now ELSE NoDate
       /\ LET r == resolveJSONPathTemplates(input, jobContext, options.omit, options.inject, now)
          IN result' = r.result /\ errors' = r.errors
  /\ pc' = "returned"
  /\ UNCHANGED <<input, jobContext, options, handler, secrets, url, message, posted, outcome>>

\* const { k } = obj
Destructure(obj, k) == OptGet(obj, k)

\* src/script.mjs:31-38: resolve the params against context.data || {} with the
\* default options; a non-empty error list is only logged
InvokeResolveSrc ==
  /\ pc = "invoke" /\ handler = "src"
  /\ \E now \in Dates :
       /\ clock' = now
       /\ LET r == resolveJSONPathTemplates(input, OrEmpty(jobContext), FALSE, TRUE, now)
          IN result' = r.result /\ errors' = r.errors
  /\ pc' = "resolved"
  /\ UNCHANGED <<input, jobContext, options, handler, secrets, url, message, posted, outcome>>

\* dist/index.js:326-340: the bundle resolves "for debugging only", inside a try,
\* without the namespace
InvokeResolveDist ==
  /\ pc = "invoke" /\ handler = "dist"
  /\ LET r == resolveJSONPathTemplates(input, OrEmpty(jobContext), FALSE, FALSE, NoDate)
     IN result' = r.result /\ errors' = r.errors
  /\ pc' = "resolved"
  /\ UNCHANGED <<input, jobContext, options, clock, handler, secrets, url, message, posted,
                 outcome>>

\* the parameters the handler goes on with: src/script.mjs:40 takes them from
\* resolvedParams, dist/index.js:343 from the original params
ParamsUsed == IF handler = "src" THEN result ELSE input

\* src/script.mjs:40-51, dist/index.js:343-354: destructure and validate
InvokeValidate ==
  /\ pc = "resolved"
  /\ url' = Destructure(ParamsUsed, K_url)
  /\ message' = IF handler = "src" THEN Destructure(ParamsUsed, K_message) ELSE Undefined
  /\ LET bearerToken == IF secrets.t \in {"null", "undefined"} THEN Undefined
                        ELSE OptGet(secrets, K_bearer_token)
     IN IF ~Truthy(bearerToken)
        THEN pc' = "done" /\ outcome' = "bearer_token secret is required"
        ELSE IF ~Truthy(url')
        THEN pc' = "done" /\ outcome' = "url parameter is required"
        ELSE pc' = "validated" /\ outcome' = outcome
  /\ UNCHANGED <<input, jobContext, options, clock, result, errors, handler, secrets, posted>>

\* src/script.mjs:53-69, dist/index.js:356-372: build the payload and POST it
InvokeFetch ==
  /\ pc = "validated"
  /\ posted' = [url |-> url,
                message |-> IF handler = "src" /\ Truthy(message) THEN message ELSE Str(HELLO),
                token |-> OptGet(secrets, K_bearer_token)]
  /\ pc' = "fetched"
  /\ UNCHANGED <<input, jobContext, options, clock, result, errors, handler, secrets, url,
                 message, outcome>>

\* src/script.mjs:71-101, dist/index.js:374-404: the response decides
InvokeFinish ==
  /\ pc = "fetched"
  /\ \E ok \in BOOLEAN :
       outcome' = IF ok THEN "returned" ELSE "HTTP request failed"
  /\ pc' = "done"
  /\ UNCHANGED <<input, jobContext, options, clock, result, errors, handler, secrets, url,
                 message, posted>>

Next ==
  \/ Resolve
  \/ InvokeResolveSrc
  \/ InvokeResolveDist
  \/ InvokeValidate
  \/ InvokeFetch
  \/ InvokeFinish

Spec == Init /\ [][Next]_vars

(***************************************************************************)
(* Vocabulary of the properties, written from their statements             *)
(***************************************************************************)
Returned == pc = "returned"

\* the context the templates of a direct call without injection are resolved
\* against: the caller's, or the empty mapping when it is absent
PlainContext == IF Truthy(jobContext) THEN jobContext ELSE Obj(<<>>)

\* the context in force for the call of the current state
ContextInForce == resolvedJobContext(jobContext, options.inject, clock)

Count(s, c) == Cardinality({i \in 1..Len(s) : s[i] = c})

IndexOf(s, c) == CHOOSE i \in 1..Len(s) : s[i] = c /\ \A j \in 1..(i - 1) : s[j] # c

\* s is  pre {$ path } post  with no other brace in it
OneGroup(s) ==
  /\ Count(s, "{") = 1
  /\ Count(s, "}") = 1
  /\ IndexOf(s, "{") < IndexOf(s, "}")
  /\ s[IndexOf(s, "{") + 1] = "$"

GroupPre(s) == SubSeq(s, 1, IndexOf(s, "{") - 1)
GroupPath(s) == SubSeq(s, IndexOf(s, "{") + 2, IndexOf(s, "}") - 1)
GroupPost(s) == SubSeq(s, IndexOf(s, "}") + 1, Len(s))

\* s is exactly  {$ path }
ExactGroup(s) == OneGroup(s) /\ GroupPre(s) = <<>> /\ GroupPost(s) = <<>>

\* the parsed segments of the path that follows the "$"
SegmentsOf(path) == ParseSegments(StripRoot(<<"$">> \o path))

\* own keys: a mapping's keys; of a sequence addressed as a mapping, "length"
OwnKey(value, seg) ==
  IF value.t = "object" THEN \E i \in 1..Len(value.v) : value.v[i][1] = seg
  ELSE seg = K_length

OwnValue(value, seg) ==
  IF value.t = "object"
  THEN value.v[CHOOSE i \in 1..Len(value.v) : value.v[i][1] = seg][2]
  ELSE Num(Len(value.v))

\* the walk of the segments from the root, case by case
RECURSIVE Locate(_, _)
Locate(value, segs) ==
  IF segs = <<>> THEN [found |-> value.t # "null", value |-> value]
  ELSE IF value.t \notin {"object", "array"} THEN [found |-> FALSE, value |-> Null]
  ELSE IF value.t = "array" /\ AllDigits(segs[1])
       THEN IF ParseInt(segs[1]) >= Len(value.v) THEN [found |-> FALSE, value |-> Null]
            ELSE Locate(value.v[ParseInt(segs[1]) + 1], Tail(segs))
  ELSE IF ~OwnKey(value, segs[1]) THEN [found |-> FALSE, value |-> Null]
  ELSE Locate(OwnValue(value, segs[1]), Tail(segs))

\* the canonical string form of a located value
StringForm(v) == IF v.t = "string" THEN v.v ELSE JSONStringify(v)

\* the occurrences {$ one or more non-} } of s from index i on, leftmost first,
\* none overlapping the one before: the path text of each
RECURSIVE OccurrencesFrom(_, _)
OccurrencesFrom(s, i) ==
  LET starts == {a \in i..Len(s) :
                   /\ a + 3 <= Len(s) /\ s[a] = "{" /\ s[a + 1] = "$" /\ s[a + 2] # "}"
                   /\ \E b \in (a + 3)..Len(s) : s[b] = "}"}
  IN IF starts = {} THEN <<>>
     ELSE LET a == CHOOSE x \in starts : \A y \in starts : x <= y
              b == CHOOSE x \in (a + 3)..Len(s) :
                     s[x] = "}" /\ \A y \in (a + 3)..(x - 1) : s[y] # "}"
          IN <<SubSeq(s, a + 1, b - 1)>> \o OccurrencesFrom(s, b + 1)

\* the message an occurrence owes, if any
OwedBy(jsonPath, ctx) ==
  LET loc == Locate(ctx, ParseSegments(StripRoot(jsonPath))) IN
  IF ~loc.found THEN <<[field |-> jsonPath, why |-> "field not found"]>>
  ELSE IF StringForm(loc.value) = <<>> THEN <<[field |-> jsonPath, why |-> "field is empty"]>>
  ELSE <<>>

RECURSIVE Flatten(_)
Flatten(seqs) == IF seqs = <<>> THEN <<>> ELSE seqs[1] \o Flatten(Tail(seqs))

\* the messages owed by a value, in walk order
RECURSIVE Owed(_, _)
Owed(value, ctx) ==
  CASE value.t = "string" ->
         LET occ == OccurrencesFrom(value.v, 1)
         IN Flatten([i \in 1..Len(occ) |-> OwedBy(occ[i], ctx)])
    [] value.t = "array" -> Flatten([i \in 1..Len(value.v) |-> Owed(value.v[i], ctx)])
    [] value.t = "object" -> Flatten([i \in 1..Len(value.v) |-> Owed(value.v[i][2], ctx)])
    [] OTHER -> <<>>

(***************************************************************************)
(* C1                                                                      *)
(***************************************************************************)
\* C1: every call returns a (result, errors) pair without an Error thrown, and
\* errors holds exactly one message for each occurrence that was not found or
\* resolved to the empty string, in walk order (empty when there is none).
C1_ErrorsAreTheOwedMessages ==
  /\ handler = "none" => outcome = "running"
  /\ Returned => /\ result.t # "undefined"
                 /\ errors = Owed(input, ContextInForce)

\* a sequence whose elements owe several messages of both kinds has returned
C1_Witness ==
  /\ Returned
  /\ input.t = "array"
  /\ Len(errors) >= 4
  /\ \E i, j \in 1..Len(errors) :
       i < j /\ errors[i].why = "field is empty" /\ errors[j].why = "field not found"

(***************************************************************************)
(* C2                                                                      *)
(***************************************************************************)
\* C2: when the context lacks a value at p, the exact template {$p} resolves to
\* "{No Value}" with exactly one "field not found" error, and to "" with the
\* same error when omitNoValueForExactTemplates is set.
C2_MissingExactTemplate ==
  (/\ Returned /\ ~options.inject /\ input.t = "string"
   /\ ExactGroup(input.v)
   /\ ~Locate(PlainContext, SegmentsOf(GroupPath(input.v))).found)
  => /\ result = Str(IF options.omit THEN <<>> ELSE NO_VALUE_PLACEHOLDER)
     /\ errors = <<[field |-> <<"$">> \o GroupPath(input.v), why |-> "field not found"]>>

\* an exact template of a missing path was resolved with the option set
C2_Witness ==
  /\ Returned /\ ~options.inject /\ options.omit
  /\ input = Str(<<"{", "$", ".", "m", "}">>)
  /\ jobContext = CtxRich
  /\ result = Str(<<>>)

\* the same without the option
C2_WitnessPlaceholder ==
  /\ Returned /\ ~options.inject /\ ~options.omit
  /\ input = Str(<<"{", "$", ".", "s", "[", "2", "]", "}">>)
  /\ jobContext = CtxRich
  /\ result = Str(NO_VALUE_PLACEHOLDER)

(***************************************************************************)
(* C3                                                                      *)
(***************************************************************************)
\* C3 as stated: when the context holds a non-null value v at p, the exact
\* template {$p} resolves to the canonical string form of v and the error list
\* is empty.
C3_AsStated ==
  (/\ Returned /\ ~options.inject /\ input.t = "string"
   /\ ExactGroup(input.v) /\ GroupPath(input.v) # <<>>
   /\ Locate(PlainContext, SegmentsOf(GroupPath(input.v))).found)
  => /\ result = Str(StringForm(Locate(PlainContext, SegmentsOf(GroupPath(input.v))).value))
     /\ errors = <<>>

\* C3 amended: for a non-empty path p at which the context holds a non-null
\* value v, the exact template {$p} resolves to the canonical string form of v;
\* the error list is empty unless v is the empty string, and then it holds
\* exactly one "field is empty" error.
C3_FoundExactTemplate ==
  (/\ Returned /\ ~options.inject /\ input.t = "string"
   /\ ExactGroup(input.v) /\ GroupPath(input.v) # <<>>
   /\ Locate(PlainContext, SegmentsOf(GroupPath(input.v))).found)
  => LET v == Locate(PlainContext, SegmentsOf(GroupPath(input.v))).value IN
     /\ result = Str(StringForm(v))
     /\ errors = IF v = Str(<<>>)
                 THEN <<[field |-> <<"$">> \o GroupPath(input.v), why |-> "field is empty"]>>
                 ELSE <<>>

\* an exact template of a mapping inside a sequence was resolved to its JSON text
C3_Witness ==
  /\ Returned /\ ~options.inject
  /\ input = Str(<<"{", "$", ".", "s", "[", "1", "]", "}">>)
  /\ jobContext = CtxRich
  /\ result = Str(<<"{", "\"", "a", "\"", ":", "1", "2", "}">>)
  /\ errors = <<>>

(***************************************************************************)
(* C4                                                                      *)
(***************************************************************************)
\* no string of the value holds  {$ zero or more non-} }
RECURSIVE TemplateFree(_)
TemplateFree(value) ==
  CASE value.t = "string" ->
         ~\E a \in 1..Len(value.v) : \E b \in (a + 2)..Len(value.v) :
            value.v[a] = "{" /\ value.v[a + 1] = "$" /\ value.v[b] = "}"
    [] value.t = "array" -> \A i \in 1..Len(value.v) : TemplateFree(value.v[i])
    [] value.t = "object" -> \A i \in 1..Len(value.v) : TemplateFree(value.v[i][2])
    [] OTHER -> TRUE

\* C4: a template-free value resolves to a deep-equal value with no errors, for
\* every context and every setting of the options.
C4_TemplateFreeIsUnchanged ==
  (Returned /\ TemplateFree(input)) => (result = input /\ errors = <<>>)

C5_WitnessBare ==
  /\ Returned /\ ~options.inject
  /\ input = Str(<<"{", "$", "}">>)
  /\ result = input

(***************************************************************************)
(* C6                                                                      *)
(***************************************************************************)
\* an entry of a value: a key of a mapping, an index of a sequence
IsEntry(v, seg) ==
  \/ v.t = "object" /\ (\E i \in 1..Len(v.v) : v.v[i][1] = seg)
  \/ v.t = "array" /\ AllDigits(seg) /\ ParseInt(seg) < Len(v.v)

EntryOf(v, seg) ==
  IF v.t = "object" /\ IsEntry(v, seg)
  THEN v.v[CHOOSE i \in 1..Len(v.v) : v.v[i][1] = seg][2]
  ELSE Null

\* the caller's own sgnl.time.now, Null when the caller supplies none
SuppliedNow == EntryOf(EntryOf(EntryOf(jobContext, K_sgnl), K_time), K_now)

\* RFC-3339, second precision, trailing Z
Timestamp(date) ==
  <<"2", "0", "2", "5", "-", "1", "2", "-", "0", "4", "T", "1", "7", ":", "3", "0", ":">>
    \o (IF date.sec < 10 THEN <<"0">> ELSE <<>>) \o NumToString(date.sec) \o <<"Z">>

ExpectedNow ==
  IF SuppliedNow.t # "null" THEN StringForm(SuppliedNow) ELSE Timestamp(clock)

\* s holds no template but occurrences of {$.sgnl.time.now}
RECURSIVE OnlyNow(_)
OnlyNow(s) ==
  IF s = <<>> THEN TRUE
  ELSE IF Len(s) >= Len(NOW) /\ SubSeq(s, 1, Len(NOW)) = NOW
  THEN OnlyNow(SubSeq(s, Len(NOW) + 1, Len(s)))
  ELSE s[1] # "{" /\ OnlyNow(Tail(s))

\* s with every occurrence of {$.sgnl.time.now} replaced by the text e
RECURSIVE WithNow(_, _)
WithNow(s, e) ==
  IF s = <<>> THEN <<>>
  ELSE IF Len(s) >= Len(NOW) /\ SubSeq(s, 1, Len(NOW)) = NOW
  THEN e \o WithNow(SubSeq(s, Len(NOW) + 1, Len(s)), e)
  ELSE <<s[1]>> \o WithNow(Tail(s), e)

\* the path names an entry of the caller's context other than sgnl, of its sgnl
\* other than time, or of its sgnl.time other than now
OtherEntry(segs) ==
  /\ Len(segs) >= 1 /\ IsEntry(jobContext, segs[1])
  /\ segs[1] = K_sgnl =>
       /\ Len(segs) >= 2 /\ IsEntry(EntryOf(jobContext, K_sgnl), segs[2])
       /\ segs[2] = K_time =>
            /\ Len(segs) >= 3 /\ segs[3] # K_now
            /\ IsEntry(EntryOf(EntryOf(jobContext, K_sgnl), K_time), segs[3])

\* C6 (first half): with injection, every occurrence of {$.sgnl.time.now}
\* resolves to one string: the caller's own sgnl.time.now when the caller
\* supplies one, the timestamp computed at injection when it does not.
C6_NowIsOneString ==
  (Returned /\ options.inject /\ input.t = "string" /\ OnlyNow(input.v))
  => result = Str(WithNow(input.v, ExpectedNow))

\* C6 (second half): the caller's other entries resolve as without injection.
C6_OtherEntriesUntouched ==
  (/\ Returned /\ options.inject /\ input.t = "string"
   /\ ExactGroup(input.v) /\ OtherEntry(SegmentsOf(GroupPath(input.v))))
  => /\ result = resolveValue(input, PlainContext, options.omit).result
     /\ errors = resolveValue(input, PlainContext, options.omit).errors

\* C6: both halves.
C6_InjectedNamespace == C6_NowIsOneString /\ C6_OtherEntriesUntouched

(***************************************************************************)
(* C7                                                                      *)
(***************************************************************************)
\* the resolved value of one element or entry value
ResolvedOf(v) == resolveValue(v, ContextInForce, options.omit).result

\* C7: with the option set a mapping keeps exactly the keys, and a sequence
\* exactly the elements in order, whose resolved value is not ""; without it
\* every key and every element of the input is present.
C7_OmissionShape ==
  /\ (Returned /\ input.t = "object") =>
       result = Obj(SelectSeq([i \in 1..Len(input.v) |->
                                 <<input.v[i][1], ResolvedOf(input.v[i][2])>>],
                              LAMBDA e : options.omit => e[2] # Str(<<>>)))
  /\ (Returned /\ input.t = "array") =>
       result = Arr(SelectSeq([i \in 1..Len(input.v) |-> ResolvedOf(input.v[i])],
                              LAMBDA x : options.omit => x # Str(<<>>)))

\* the same for mappings without the key __proto__
C7_OrdinaryKeys ==
  ((Returned /\ input.t = "object" /\ \A i \in 1..Len(input.v) : input.v[i][1] # PROTO)
     => result = Obj(SelectSeq([i \in 1..Len(input.v) |->
                                  <<input.v[i][1], ResolvedOf(input.v[i][2])>>],
                               LAMBDA e : options.omit => e[2] # Str(<<>>))))

(***************************************************************************)
(* C8                                                                      *)
(***************************************************************************)
\* the parameters as resolved against context.data
ResolvedParams ==
  resolveJSONPathTemplates(input, PlainContext, FALSE, options.inject, clock)

\* the field k of the params p, undefined when p has none
ParamOf(p, k) == IF IsEntry(p, k) THEN EntryOf(p, k) ELSE Undefined

\* C8: invoke resolves the params against context.data, goes on whatever the
\* error list holds, and validates and POSTs the url and message of the
\* resolved params.
C8_InvokeUsesResolvedParams ==
  (handler # "none" /\ pc # "invoke")
  => /\ result = ResolvedParams.result
     /\ errors = ResolvedParams.errors
     /\ pc \in {"validated", "fetched"} => url = ParamOf(result, K_url)
     /\ posted # NoRequest =>
          /\ posted.url = ParamOf(result, K_url)
          /\ posted.message = IF Truthy(ParamOf(result, K_message))
                              THEN ParamOf(result, K_message) ELSE Str(HELLO)

(***************************************************************************)
(* C9                                                                      *)
(***************************************************************************)
\* C9: a not-found occurrence is replaced by "" exactly when its string is an
\* exact template and the option is set, by "{No Value}" otherwise; a found
\* value whose string form is empty is replaced by "" with one "field is
\* empty" error under both settings.
C9_SubstitutionText ==
  (/\ Returned /\ ~options.inject /\ input.t = "string"
   /\ OneGroup(input.v) /\ GroupPath(input.v) # <<>>)
  => LET loc == Locate(PlainContext, SegmentsOf(GroupPath(input.v)))
         pre == GroupPre(input.v)
         post == GroupPost(input.v)
         field == <<"$">> \o GroupPath(input.v)
     IN /\ ~loc.found =>
             /\ result = Str(pre \o (IF ExactGroup(input.v) /\ options.omit
                                     THEN <<>> ELSE NO_VALUE_PLACEHOLDER) \o post)
             /\ errors = <<[field |-> field, why |-> "field not found"]>>
        /\ (loc.found /\ StringForm(loc.value) = <<>>) =>
             /\ result = Str(pre \o post)
             /\ errors = <<[field |-> field, why |-> "field is empty"]>>

\* an unresolved expression inside a longer string, resolved with the option set
C9_Witness ==
  /\ Returned /\ ~options.inject /\ options.omit
  /\ input = Str(<<"x", "{", "$", ".", "m", "}", "!">>)
  /\ result = Str(<<"x", "{", "N", "o", " ", "V", "a", "l", "u", "e", "}", "!">>)

\* an empty value behind an exact template, resolved without the option
C9_WitnessEmpty ==
  /\ Returned /\ ~options.inject /\ ~options.omit
  /\ input = Str(<<"{", "$", ".", "e", "}">>)
  /\ jobContext = CtxRich
  /\ result = Str(<<>>)
  /\ Len(errors) = 1 /\ errors[1].why = "field is empty"

(***************************************************************************)
(* C10                                                                     *)
(***************************************************************************)
ReportedNotFound == errors # <<>> /\ errors[1].why = "field not found"

\* C10: the extractor reports not-found exactly when the walk of the parsed
\* segments meets a value that is not a mapping or sequence, an index at or
\* past the length, a segment that is not an own key, or ends on null; in
\* every other case it reports found with the located value.
C10_ExtractorCases ==
  (/\ Returned /\ ~options.inject /\ input.t = "string"
   /\ OneGroup(input.v) /\ GroupPath(input.v) # <<>>)
  => LET loc == Locate(PlainContext, SegmentsOf(GroupPath(input.v)))
     IN /\ ReportedNotFound <=> ~loc.found
        /\ loc.found =>
             result = Str(GroupPre(input.v) \o StringForm(loc.value) \o GroupPost(input.v))

\* the value 0 was found
C10_Witness ==
  /\ Returned /\ ~options.inject /\ jobContext = CtxRich
  /\ input = Str(<<"{", "$", ".", "z", "}">>) /\ result = Str(<<"0">>) /\ errors = <<>>

\* the walk failed past the end of a sequence
C10_WitnessPastEnd ==
  /\ Returned /\ ~options.inject /\ jobContext = CtxRich
  /\ input = Str(<<"{", "$", ".", "s", "[", "2", "]", "}">>) /\ ReportedNotFound

\* the walk failed through null
C10_WitnessThroughNull ==
  /\ Returned /\ ~options.inject /\ jobContext = CtxRich
  /\ input = Str(<<"{", "$", ".", "n", ".", "a", "}">>) /\ ReportedNotFound

\* the length of a sequence was found as its own key
C10_WitnessLength ==
  /\ Returned /\ ~options.inject /\ jobContext = CtxRich
  /\ input = Str(<<"{", "$", ".", "s", ".", "l", "e", "n", "g", "t", "h", "}">>) /\ result = Str(<<"2">>)

====
